---- MODULE Spec2Model ----
(***************************************************************************)
(* TesterCamera of the SequenceTester device adapter: the sequence         *)
(* acquisition engine (StartSequenceAcquisitionImpl, StopSequenceAcquisi-  *)
(* tion, IsCapturing, SendSequence), SnapImage and GenerateLogImage, run   *)
(* by several controlling threads and the detached capture threads; and    *)
(* the setters and getters of TesterCamera and TesterXYStage, which record *)
(* in the SettingLogger the frames are packed from.                        *)
(***************************************************************************)
EXTENDS Integers, Sequences, FiniteSets, TLC

(* ---- bounds ---- *)
MaxCalls == 3       \* calls the controlling threads make in all
MaxCount == 2       \* largest count passed to a finite start
MaxFrames == 1      \* frames followed of a run without a count
MaxSnaps == 1       \* SnapImage calls explored
MaxThreads == 2     \* controlling threads calling into the camera

\* a start succeeds only after a stop has set the flag again, so MaxCalls
\* calls hold at most this many successful starts
MaxRuns == (MaxCalls + 1) \div 2

Threads == 1 .. MaxThreads  \* controlling threads
Runs == 1 .. MaxRuns        \* capture tasks, numbered in order of the starts
Counts == {0 - 1, 0, MaxCount}

(* ---- result codes ---- *)
DEVICE_OK == 0
DEVICE_ERR == 1
DEVICE_BUFFER_OVERFLOW == 22
\* boost::future_uninitialized leaving StopSequenceAcquisition uncaught
FUTURE_UNINITIALIZED == 0 - 1
NoCode == 0 - 2             \* no value (no call made yet, no error held)
\* the code Setting::Set returns for a value outside the bounds
OUT_OF_RANGE == 3

InsertResults == {DEVICE_OK, DEVICE_BUFFER_OVERFLOW, DEVICE_ERR}
AcqFinishedResults == {DEVICE_OK, DEVICE_ERR}

(* ---- owners of sequenceMutex_ ---- *)
NoOwner == <<"none", 0>>
Ctl(t) == <<"ctl", t>>
Wrk(w) == <<"wrk", w>>

VARIABLES
    stopSequence_,                \* TesterCamera::stopSequence_
    sequenceMutex_,               \* owner of TesterCamera::sequenceMutex_
    sequenceFuture_,              \* 0: uninitialized, else the task it refers to
    cumulativeSequenceCounter_,
    snapCounter_,
    ctl,                          \* the controlling threads
    workers,                      \* the capture tasks and their threads
    nruns,                        \* successful starts so far
    ncalls,                       \* calls made so far
    core,                         \* calls received by the core callback
    frames,                       \* the frames GenerateLogImage made, in brief
    returned,                     \* the call that returned last, and its outcome
    stopSince,                    \* a stop was called since the last successful start
    loggerMutex,                  \* owner of the SettingLogger's lock (its Guard)
    log,                          \* the SettingLogger's entries since the last reset
    counter,                      \* the SettingLogger's next sequence number
    settings                      \* the values the Settings of the devices hold

\* the SettingLogger and the Settings that record in it
loggerVars == <<loggerMutex, log, counter, settings>>

vars == <<stopSequence_, sequenceMutex_, sequenceFuture_,
          cumulativeSequenceCounter_, snapCounter_, ctl, workers, nruns,
          ncalls, core, frames, returned, stopSince, loggerMutex, log,
          counter, settings>>

(* ---- a controlling thread between calls ---- *)
IdleCtl ==
    [pc |-> "idle",
     finite |-> FALSE, count |-> 0, stopOnOverflow |-> FALSE,
     run |-> 0, fut |-> 0, caught |-> NoCode,
     setFlag |-> FALSE, target |-> 0, pending |-> {},
     args |-> <<>>, out |-> <<>>]

\* no call has returned yet
NoReturn ==
    [op |-> "none", ret |-> NoCode, capturing |-> FALSE,
     setFlag |-> FALSE, notified |-> FALSE, target |-> 0, pending |-> {},
     refusal |-> "none", args |-> <<>>, got |-> <<>>]

(* ---- a capture task that does not exist yet ---- *)
NoWorker ==
    [pc |-> "unborn", finite |-> FALSE, count |-> 0, stopOnOverflow |-> FALSE,
     frame |-> 0, cum |-> 0 - 1, err |-> NoCode, first |-> NoCode,
     tries |-> 0, clears |-> 0, dontFail |-> FALSE,
     gens |-> 0, sent |-> <<>>, runClears |-> 0,
     result |-> "pending", exc |-> NoCode, ended |-> "no", reports |-> 0]

\* no frame made yet
NoFrames == [cum |-> 0 - 1, repeated |-> FALSE, sequence |-> 0, digest |-> <<>>]

(***************************************************************************)
(* The Settings the devices create in Initialize. Exposure is kept in      *)
(* tenths of a millisecond: 100.0 in 0.1 .. 1000.0.                        *)
(***************************************************************************)
exposureSetting_ ==
    [name |-> "Exposure", initial |-> 1000, hasMinMax |-> TRUE,
     min |-> 1, max |-> 10000]

\* Binning created without its bounds (hasMinMax false)
binningUnbounded ==
    [name |-> "Binning", initial |-> 1, hasMinMax |-> FALSE,
     min |-> 1, max |-> 1]

binningSetting_ ==
    [name |-> "Binning", initial |-> 1, hasMinMax |-> TRUE,
     min |-> 1, max |-> 1]

xPositionSteps_ ==
    [name |-> "XPositionSteps", initial |-> 0, hasMinMax |-> FALSE,
     min |-> 0, max |-> 0]

yPositionSteps_ ==
    [name |-> "YPositionSteps", initial |-> 0, hasMinMax |-> FALSE,
     min |-> 0, max |-> 0]

\* values passed to SetExposure (tenths of a ms), SetBinning, SetPositionSteps
ExposureValues == {0, 500, 10001}
BinningValues == {0, 1, 2}
Positions == {<<1, 1>>, <<2, 2>>}

(***************************************************************************)
(* SettingLogger and Setting<T>                                            *)
(***************************************************************************)
\* Guard(): the lock is free, or the caller holds it already (re-entrant)
CanLock(owner) == loggerMutex \in {NoOwner, owner}

\* the entry recordWrite / recordRead appends, with the next sequence number
Entry(t, name, kind, value) ==
    [seq |-> counter, thread |-> t, name |-> name, kind |-> kind,
     value |-> value]

\* Set validates the bounds: value < min || value > max
OutOfRange(st, value) ==
    st.hasMinMax /\ (value < st.min \/ value > st.max)

\* Setting::Set(value) by thread t, under the guard: the code it returns and
\* what it leaves in the Setting and in the log
SettingSet(t, st, value) ==
    IF OutOfRange(st, value)
    THEN [ret |-> OUT_OF_RANGE, settings |-> settings, log |-> log,
          counter |-> counter]
    ELSE [ret |-> DEVICE_OK,
          settings |-> [settings EXCEPT ![st.name] = value],
          log |-> Append(log, Entry(t, st.name, "Write", value)),
          counter |-> counter + 1]

\* a Get that records its Read without taking a new sequence number
SettingGetUncounted(t, st) ==
    [ret |-> DEVICE_OK, value |-> settings[st.name],
     log |-> Append(log, Entry(t, st.name, "Read", settings[st.name])),
     counter |-> counter]

\* Setting::Get by thread t, under the guard: records a Read and returns the
\* value
SettingGet(t, st) ==
    [ret |-> DEVICE_OK, value |-> settings[st.name],
     log |-> Append(log, Entry(t, st.name, "Read", settings[st.name])),
     counter |-> counter + 1]

\* SettingLogger::PackAndReset, under the lock: the digest of the entries
\* that goes into the payload, and the log it leaves
PackAndReset == [digest |-> log, log |-> <<>>]

\* TesterCamera::TesterCamera, and Initialize of the camera and the XY stage
Init ==
    /\ stopSequence_ = TRUE
    /\ sequenceMutex_ = NoOwner
    /\ sequenceFuture_ = 0
    /\ cumulativeSequenceCounter_ = 0
    /\ snapCounter_ = 0
    /\ ctl = [t \in Threads |-> IdleCtl]
    /\ workers = [w \in Runs |-> NoWorker]
    /\ nruns = 0
    /\ ncalls = 0
    /\ core = [prepareCalls |-> 0, acqFinishedCalls |-> 0]
    /\ frames = NoFrames
    /\ returned = NoReturn
    /\ stopSince = TRUE
    /\ loggerMutex = NoOwner
    /\ log = <<>>
    /\ counter = 0
    /\ settings = [Exposure |-> exposureSetting_.initial,
                   Binning |-> binningSetting_.initial,
                   XPositionSteps |-> xPositionSteps_.initial,
                   YPositionSteps |-> yPositionSteps_.initial]

\* a capture thread between its spawn and its exit
Alive(w) == workers[w].pc \notin {"unborn", "created", "done"}

\* a call of op returns code: what the caller gets back, and what the call did
Return(c, op, code) ==
    [NoReturn EXCEPT !.op = op, !.ret = code,
                     !.setFlag = c.setFlag, !.target = c.target,
                     !.pending = c.pending, !.args = c.args]

(***************************************************************************)
(* StartSequenceAcquisition(count, interval, stopOnOverflow) and           *)
(* StartSequenceAcquisition(interval), both StartSequenceAcquisitionImpl.  *)
(***************************************************************************)
StartArgs ==
    [finite : {TRUE}, count : Counts, stopOnOverflow : BOOLEAN]
        \cup {[finite |-> FALSE, count |-> 0, stopOnOverflow |-> FALSE]}

\* the call is made and lock_guard takes sequenceMutex_ (blocks while owned)
StartLock(t, a) ==
    /\ ctl[t].pc = "idle"
    /\ sequenceMutex_ = NoOwner
    /\ ncalls < MaxCalls
    /\ ncalls' = ncalls + 1
    /\ returned' = NoReturn
    /\ sequenceMutex_' = Ctl(t)
    /\ ctl' = [ctl EXCEPT ![t] =
                 [IdleCtl EXCEPT !.pc = "start_locked",
                     !.finite = a.finite, !.count = a.count,
                     !.stopOnOverflow = a.stopOnOverflow]]
    /\ UNCHANGED <<stopSequence_, sequenceFuture_, cumulativeSequenceCounter_,
                   snapCounter_, workers, nruns, core, frames, stopSince>>
    /\ UNCHANGED loggerVars

\* what the refused start found: the last run's worker streaming or finished
RefusalOf(w) ==
    IF stopSince THEN "stopped"
    ELSE IF workers[w].pc = "done" /\ sequenceFuture_ = w THEN "finished"
    ELSE IF Alive(w) THEN "streaming"
    ELSE "starting"

\* the check of the flag left out of start: no start is ever refused
NeverRunning == FALSE

\* if (!stopSequence_)
AlreadyRunning == ~stopSequence_

\* if (!stopSequence_) return DEVICE_ERR; stopSequence_ = false;
StartCheck(t) ==
    /\ ctl[t].pc = "start_locked"
    /\ sequenceMutex_ = Ctl(t)
    /\ sequenceMutex_' = NoOwner
    /\ IF AlreadyRunning
       THEN /\ ctl' = [ctl EXCEPT ![t] = IdleCtl]
            /\ returned' = [Return(ctl[t], "start", DEVICE_ERR) EXCEPT
                               !.refusal = RefusalOf(nruns)]
            /\ UNCHANGED <<stopSequence_, nruns, stopSince>>
       ELSE /\ stopSequence_' = FALSE
            /\ nruns' = nruns + 1
            /\ stopSince' = FALSE
            /\ ctl' = [ctl EXCEPT ![t].pc = "start_prepare",
                                  ![t].run = nruns + 1]
            /\ UNCHANGED returned
    /\ UNCHANGED <<sequenceFuture_, cumulativeSequenceCounter_, snapCounter_,
                   workers, ncalls, core, frames>>
    /\ UNCHANGED loggerVars

\* a start that goes on to the task without calling PrepareForAcq
StartPrepareSkipped(t) ==
    /\ ctl[t].pc = "start_prepare"
    /\ ctl' = [ctl EXCEPT ![t].pc = "start_future"]
    /\ UNCHANGED <<stopSequence_, sequenceMutex_, sequenceFuture_,
                   cumulativeSequenceCounter_, snapCounter_, workers, nruns,
                   ncalls, core, frames, returned, stopSince>>
    /\ UNCHANGED loggerVars

\* GetCoreCallback()->PrepareForAcq(this)
StartPrepare(t) ==
    /\ ctl[t].pc = "start_prepare"
    /\ core' = [core EXCEPT !.prepareCalls = @ + 1]
    /\ ctl' = [ctl EXCEPT ![t].pc = "start_future"]
    /\ UNCHANGED <<stopSequence_, sequenceMutex_, sequenceFuture_,
                   cumulativeSequenceCounter_, snapCounter_, workers, nruns,
                   ncalls, frames, returned, stopSince>>
    /\ UNCHANGED loggerVars

\* packaged_task captureTask(bind(SendSequence, ...));
\* sequenceFuture_ = captureTask.get_future();
StartFuture(t) ==
    /\ ctl[t].pc = "start_future"
    /\ workers' = [workers EXCEPT ![ctl[t].run] =
                     [NoWorker EXCEPT !.pc = "created",
                         !.finite = ctl[t].finite, !.count = ctl[t].count,
                         !.stopOnOverflow = ctl[t].stopOnOverflow]]
    /\ sequenceFuture_' = ctl[t].run
    /\ ctl' = [ctl EXCEPT ![t].pc = "start_spawn"]
    /\ UNCHANGED <<stopSequence_, sequenceMutex_, cumulativeSequenceCounter_,
                   snapCounter_, nruns, ncalls, core, frames, returned,
                   stopSince>>
    /\ UNCHANGED loggerVars

\* boost::thread captureThread(move(captureTask)); detach; return DEVICE_OK
StartSpawn(t) ==
    /\ ctl[t].pc = "start_spawn"
    /\ workers' = [workers EXCEPT ![ctl[t].run].pc = "top"]
    /\ ctl' = [ctl EXCEPT ![t] = IdleCtl]
    /\ returned' = Return(ctl[t], "start", DEVICE_OK)
    /\ UNCHANGED <<stopSequence_, sequenceMutex_, sequenceFuture_,
                   cumulativeSequenceCounter_, snapCounter_, nruns, ncalls,
                   core, frames, stopSince>>
    /\ UNCHANGED loggerVars

(***************************************************************************)
(* StopSequenceAcquisition                                                 *)
(***************************************************************************)
\* worker errors raised and not yet returned by any stop
Unreported ==
    {w \in Runs : workers[w].result = "err" /\ workers[w].reports = 0}

\* the call is made and lock_guard takes sequenceMutex_
StopLock(t) ==
    /\ ctl[t].pc = "idle"
    /\ sequenceMutex_ = NoOwner
    /\ ncalls < MaxCalls
    /\ ncalls' = ncalls + 1
    /\ returned' = NoReturn
    /\ sequenceMutex_' = Ctl(t)
    /\ stopSince' = TRUE
    /\ ctl' = [ctl EXCEPT ![t] =
                 [IdleCtl EXCEPT !.pc = "stop_locked", !.pending = Unreported]]
    /\ UNCHANGED <<stopSequence_, sequenceFuture_, cumulativeSequenceCounter_,
                   snapCounter_, workers, nruns, core, frames>>
    /\ UNCHANGED loggerVars

\* the check of the flag left out of stop: every stop goes on to the handoff
NeverStopped == FALSE

\* if (stopSequence_)
AlreadyStopped == stopSequence_

\* if (stopSequence_) return DEVICE_OK; stopSequence_ = true;
StopCheck(t) ==
    /\ ctl[t].pc = "stop_locked"
    /\ sequenceMutex_ = Ctl(t)
    /\ sequenceMutex_' = NoOwner
    /\ IF AlreadyStopped
       THEN /\ ctl' = [ctl EXCEPT ![t] = IdleCtl]
            /\ returned' = Return(ctl[t], "stop", DEVICE_OK)
            /\ UNCHANGED stopSequence_
       ELSE /\ stopSequence_' = TRUE
            /\ ctl' = [ctl EXCEPT ![t].pc = "stop_state",
                                  ![t].setFlag = TRUE,
                                  ![t].target = nruns]
            /\ UNCHANGED returned
    /\ UNCHANGED <<sequenceFuture_, cumulativeSequenceCounter_, snapCounter_,
                   workers, nruns, ncalls, core, frames, stopSince>>
    /\ UNCHANGED loggerVars

\* if (sequenceFuture_.get_state() != boost::future_state::uninitialized)
StopState(t) ==
    /\ ctl[t].pc = "stop_state"
    /\ ctl' = [ctl EXCEPT ![t].pc =
                 IF sequenceFuture_ # 0 THEN "stop_get" ELSE "stop_finish"]
    /\ UNCHANGED <<stopSequence_, sequenceMutex_, sequenceFuture_,
                   cumulativeSequenceCounter_, snapCounter_, workers, nruns,
                   ncalls, core, frames, returned, stopSince>>
    /\ UNCHANGED loggerVars

\* sequenceFuture_.get() is entered: it waits on the state the future refers
\* to now, and throws future_uninitialized when another thread has reset it
StopGet(t) ==
    /\ ctl[t].pc = "stop_get"
    /\ IF sequenceFuture_ = 0
       THEN /\ ctl' = [ctl EXCEPT ![t] = IdleCtl]
            /\ returned' = Return(ctl[t], "stop", FUTURE_UNINITIALIZED)
       ELSE /\ ctl' = [ctl EXCEPT ![t].pc = "stop_wait",
                                  ![t].fut = sequenceFuture_]
            /\ UNCHANGED returned
    /\ UNCHANGED <<stopSequence_, sequenceMutex_, sequenceFuture_,
                   cumulativeSequenceCounter_, snapCounter_, workers, nruns,
                   ncalls, core, frames, stopSince>>
    /\ UNCHANGED loggerVars

\* get() returns when the task has finished, or rethrows its DeviceError
StopWait(t) ==
    /\ ctl[t].pc = "stop_wait"
    /\ workers[ctl[t].fut].result # "pending"
    /\ ctl' = [ctl EXCEPT ![t] =
                 IF workers[ctl[t].fut].result = "err"
                 THEN [@ EXCEPT !.pc = "stop_catch",
                                !.caught = workers[ctl[t].fut].exc]
                 ELSE [@ EXCEPT !.pc = "stop_reset"]]
    /\ UNCHANGED <<stopSequence_, sequenceMutex_, sequenceFuture_,
                   cumulativeSequenceCounter_, snapCounter_, workers, nruns,
                   ncalls, core, frames, returned, stopSince>>
    /\ UNCHANGED loggerVars

\* catch (const DeviceError& e): reset the future, return e.GetCode()
StopCatch(t) ==
    /\ ctl[t].pc = "stop_catch"
    /\ sequenceFuture_' = 0
    /\ workers' = [workers EXCEPT ![ctl[t].fut].reports = @ + 1]
    /\ ctl' = [ctl EXCEPT ![t] = IdleCtl]
    /\ returned' = Return(ctl[t], "stop", ctl[t].caught)
    /\ UNCHANGED <<stopSequence_, sequenceMutex_, cumulativeSequenceCounter_,
                   snapCounter_, nruns, ncalls, core, frames, stopSince>>
    /\ UNCHANGED loggerVars

\* sequenceFuture_ = boost::unique_future<void>();
StopReset(t) ==
    /\ ctl[t].pc = "stop_reset"
    /\ sequenceFuture_' = 0
    /\ ctl' = [ctl EXCEPT ![t].pc = "stop_finish"]
    /\ UNCHANGED <<stopSequence_, sequenceMutex_, cumulativeSequenceCounter_,
                   snapCounter_, workers, nruns, ncalls, core, frames,
                   returned, stopSince>>
    /\ UNCHANGED loggerVars

\* return GetCoreCallback()->AcqFinished(this, 0);
StopFinish(t, r) ==
    /\ ctl[t].pc = "stop_finish"
    /\ core' = [core EXCEPT !.acqFinishedCalls = @ + 1]
    /\ ctl' = [ctl EXCEPT ![t] = IdleCtl]
    /\ returned' = [Return(ctl[t], "stop", r) EXCEPT !.notified = TRUE]
    /\ UNCHANGED <<stopSequence_, sequenceMutex_, sequenceFuture_,
                   cumulativeSequenceCounter_, snapCounter_, workers, nruns,
                   ncalls, frames, stopSince>>
    /\ UNCHANGED loggerVars

(***************************************************************************)
(* IsCapturing                                                             *)
(***************************************************************************)
IsCapturingLock(t) ==
    /\ ctl[t].pc = "idle"
    /\ sequenceMutex_ = NoOwner
    /\ ncalls < MaxCalls
    /\ ncalls' = ncalls + 1
    /\ returned' = NoReturn
    /\ sequenceMutex_' = Ctl(t)
    /\ ctl' = [ctl EXCEPT ![t] = [IdleCtl EXCEPT !.pc = "capturing_locked"]]
    /\ UNCHANGED <<stopSequence_, sequenceFuture_, cumulativeSequenceCounter_,
                   snapCounter_, workers, nruns, core, frames, stopSince>>
    /\ UNCHANGED loggerVars

\* an IsCapturing that asks whether a capture thread is alive
IsCapturingByWorker(t) ==
    /\ ctl[t].pc = "capturing_locked"
    /\ sequenceMutex_ = Ctl(t)
    /\ sequenceMutex_' = NoOwner
    /\ ctl' = [ctl EXCEPT ![t] = IdleCtl]
    /\ returned' = [Return(ctl[t], "capturing", DEVICE_OK) EXCEPT
                       !.capturing = \E w \in Runs : Alive(w)]
    /\ UNCHANGED <<stopSequence_, sequenceFuture_, cumulativeSequenceCounter_,
                   snapCounter_, workers, nruns, ncalls, core, frames,
                   stopSince>>
    /\ UNCHANGED loggerVars

\* return !stopSequence_;
IsCapturing(t) ==
    /\ ctl[t].pc = "capturing_locked"
    /\ sequenceMutex_ = Ctl(t)
    /\ sequenceMutex_' = NoOwner
    /\ ctl' = [ctl EXCEPT ![t] = IdleCtl]
    /\ returned' = [Return(ctl[t], "capturing", DEVICE_OK) EXCEPT
                       !.capturing = ~stopSequence_]
    /\ UNCHANGED <<stopSequence_, sequenceFuture_, cumulativeSequenceCounter_,
                   snapCounter_, workers, nruns, ncalls, core, frames,
                   stopSince>>
    /\ UNCHANGED loggerVars

(***************************************************************************)
(* GenerateLogImage and SnapImage                                          *)
(***************************************************************************)
\* a frame whose payload is not packed from the log
GenerateLogImageBlank(isSequenceImage, cumulativeCount, localCount) ==
    [cum |-> cumulativeCount,
     repeated |-> frames.cum = cumulativeCount,
     sequence |-> frames.sequence + (IF isSequenceImage THEN 1 ELSE 0),
     digest |-> <<>>]

\* GenerateLogImage(isSequenceImage, cumulativeCount, localCount): the payload
\* PackAndReset writes carries the flag and the counts. What is kept of the
\* frames: the cumulative count of the last one, whether the frame made just
\* before it carried the same cumulative count, and how many sequence frames
\* were made, and the digest of the log in the last one
GenerateLogImage(isSequenceImage, cumulativeCount, localCount) ==
    [cum |-> cumulativeCount,
     repeated |-> frames.cum = cumulativeCount,
     sequence |-> frames.sequence + (IF isSequenceImage THEN 1 ELSE 0),
     digest |-> PackAndReset.digest]

\* snapImage_ = GenerateLogImage(false, snapCounter_++); return DEVICE_OK;
\* (SnapImage calls are made one at a time)
SnapImage(t) ==
    /\ ctl[t].pc = "idle"
    /\ ncalls < MaxCalls
    /\ snapCounter_ < MaxSnaps
    /\ ncalls' = ncalls + 1
    /\ snapCounter_' = snapCounter_ + 1
    /\ CanLock(Ctl(t))
    /\ frames' = GenerateLogImage(FALSE, snapCounter_, 0)
    /\ log' = PackAndReset.log
    /\ returned' = Return(IdleCtl, "snap", DEVICE_OK)
    /\ UNCHANGED <<loggerMutex, counter, settings>>
    /\ UNCHANGED <<stopSequence_, sequenceMutex_, sequenceFuture_,
                   cumulativeSequenceCounter_, ctl, workers, nruns, core,
                   stopSince>>

(***************************************************************************)
(* SendSequence, run by the detached capture thread of a packaged task     *)
(***************************************************************************)
\* SendSequence returns or throws: the task's shared state becomes ready and
\* the locals of the thread are gone
Finish(wk, result, exc, ended) ==
    [NoWorker EXCEPT !.pc = "done", !.result = result, !.exc = exc,
                     !.ended = ended, !.finite = wk.finite,
                     !.count = wk.count]

\* the loop condition off by one: frame <= count
LoopEndsLate(wk) == wk.finite /\ wk.frame > wk.count

\* the loop condition fails: !(!finite || frame < count)
LoopEnds(wk) == wk.finite /\ wk.frame >= wk.count

\* for (frame; !finite || frame < count; ) { lock_guard lock(sequenceMutex_);
\* (never false for a run without a count)
SendSequenceTop(w) ==
    /\ workers[w].pc = "top"
    /\ IF LoopEnds(workers[w])
       THEN /\ workers' = [workers EXCEPT ![w] =
                             Finish(@, "ok", NoCode, "count")]
            /\ UNCHANGED sequenceMutex_
       ELSE /\ sequenceMutex_ = NoOwner
            /\ sequenceMutex_' = Wrk(w)
            /\ workers' = [workers EXCEPT ![w].pc = "check"]
    /\ UNCHANGED <<stopSequence_, sequenceFuture_, cumulativeSequenceCounter_,
                   snapCounter_, ctl, nruns, ncalls, core, frames, returned,
                   stopSince>>
    /\ UNCHANGED loggerVars

\* the frames of a run without a count are followed up to MaxFrames; past
\* them the worker goes round the loop and only its checks of the flag are
\* followed
FramesFollowed(wk) == wk.finite \/ wk.frame < MaxFrames

\* if (stopSequence_) break;
SendSequenceCheck(w) ==
    /\ workers[w].pc = "check"
    /\ sequenceMutex_ = Wrk(w)
    /\ sequenceMutex_' = NoOwner
    /\ workers' = [workers EXCEPT ![w] =
                     IF stopSequence_
                     THEN Finish(@, "ok", NoCode, "stopped")
                     ELSE IF FramesFollowed(@)
                     THEN [@ EXCEPT !.pc = "count"]
                     ELSE [@ EXCEPT !.pc = "top"]]
    /\ UNCHANGED <<stopSequence_, sequenceFuture_, cumulativeSequenceCounter_,
                   snapCounter_, ctl, nruns, ncalls, core, frames, returned,
                   stopSince>>
    /\ UNCHANGED loggerVars

\* cumulativeSequenceCounter_++ is read ...
SendSequenceCount(w) ==
    /\ workers[w].pc = "count"
    /\ workers' = [workers EXCEPT ![w].pc = "generate",
                                  ![w].cum = cumulativeSequenceCounter_]
    /\ UNCHANGED <<stopSequence_, sequenceMutex_, sequenceFuture_,
                   cumulativeSequenceCounter_, snapCounter_, ctl, nruns,
                   ncalls, core, frames, returned, stopSince>>
    /\ UNCHANGED loggerVars

\* ... and written: bytes = GenerateLogImage(true,
\*                             cumulativeSequenceCounter_++, frame);
SendSequenceGenerate(w) ==
    /\ workers[w].pc = "generate"
    /\ cumulativeSequenceCounter_' = workers[w].cum + 1
    /\ CanLock(Wrk(w))
    /\ frames' = GenerateLogImage(TRUE, workers[w].cum, workers[w].frame)
    /\ log' = PackAndReset.log
    /\ UNCHANGED <<loggerMutex, counter, settings>>
    /\ workers' = [workers EXCEPT ![w].pc = "insert", ![w].gens = @ + 1]
    /\ UNCHANGED <<stopSequence_, sequenceMutex_, sequenceFuture_,
                   snapCounter_, ctl, nruns, ncalls, core, returned,
                   stopSince>>

\* the frame is delivered: ++frame and the loop is entered again
Delivered(wk) ==
    [wk EXCEPT !.pc = "top", !.frame = @ + 1,
               !.sent = Append(@, <<wk.cum, wk.frame>>),
               !.err = NoCode, !.first = NoCode, !.tries = 0, !.clears = 0,
               !.dontFail = FALSE]

\* the retry taken on overflow whatever stopOnOverflow says
RetryRegardless(wk, r) == r = DEVICE_BUFFER_OVERFLOW

\* if (!stopOnOverflow && err == DEVICE_BUFFER_OVERFLOW)
RetryOnOverflow(wk, r) == ~wk.stopOnOverflow /\ r = DEVICE_BUFFER_OVERFLOW

\* err = core->InsertImage(...); the branches taken on err
SendSequenceInsert(w, r) ==
    /\ workers[w].pc = "insert"
    /\ workers' = [workers EXCEPT ![w] =
         LET wk == [@ EXCEPT !.err = r, !.first = r, !.tries = @ + 1]
         IN IF RetryOnOverflow(wk, r)
            THEN [wk EXCEPT !.pc = "clear"]
            ELSE IF r # DEVICE_OK
            THEN [wk EXCEPT !.pc = "failed"]
            ELSE Delivered(wk)]
    /\ UNCHANGED <<stopSequence_, sequenceMutex_, sequenceFuture_,
                   cumulativeSequenceCounter_, snapCounter_, ctl, nruns,
                   ncalls, core, frames, returned, stopSince>>
    /\ UNCHANGED loggerVars

\* core->ClearImageBuffer(this);
SendSequenceClear(w) ==
    /\ workers[w].pc = "clear"
    /\ workers' = [workers EXCEPT ![w].pc = "retry",
                                  ![w].clears = @ + 1,
                                  ![w].runClears = @ + 1]
    /\ UNCHANGED <<stopSequence_, sequenceMutex_, sequenceFuture_,
                   cumulativeSequenceCounter_, snapCounter_, ctl, nruns,
                   ncalls, core, frames, returned, stopSince>>
    /\ UNCHANGED loggerVars

\* err = core->InsertImage(..., false);
SendSequenceRetry(w, r) ==
    /\ workers[w].pc = "retry"
    /\ workers' = [workers EXCEPT ![w] =
         LET wk == [@ EXCEPT !.err = r, !.tries = @ + 1, !.dontFail = TRUE]
         IN IF r # DEVICE_OK
            THEN [wk EXCEPT !.pc = "failed"]
            ELSE Delivered(wk)]
    /\ UNCHANGED <<stopSequence_, sequenceMutex_, sequenceFuture_,
                   cumulativeSequenceCounter_, snapCounter_, ctl, nruns,
                   ncalls, core, frames, returned, stopSince>>
    /\ UNCHANGED loggerVars

\* if (err != DEVICE_OK) { lock_guard lock(sequenceMutex_);
SendSequenceFailed(w) ==
    /\ workers[w].pc = "failed"
    /\ sequenceMutex_ = NoOwner
    /\ sequenceMutex_' = Wrk(w)
    /\ workers' = [workers EXCEPT ![w].pc = "stopped"]
    /\ UNCHANGED <<stopSequence_, sequenceFuture_, cumulativeSequenceCounter_,
                   snapCounter_, ctl, nruns, ncalls, core, frames, returned,
                   stopSince>>
    /\ UNCHANGED loggerVars

\* stopped = stopSequence_; if (!stopped) throw DeviceError(err); else break;
SendSequenceStopped(w) ==
    /\ workers[w].pc = "stopped"
    /\ sequenceMutex_ = Wrk(w)
    /\ sequenceMutex_' = NoOwner
    /\ workers' = [workers EXCEPT ![w] =
                     IF ~stopSequence_
                     THEN Finish(@, "err", workers[w].err, "error")
                     ELSE Finish(@, "ok", NoCode, "absorbed")]
    /\ UNCHANGED <<stopSequence_, sequenceFuture_, cumulativeSequenceCounter_,
                   snapCounter_, ctl, nruns, ncalls, core, frames, returned,
                   stopSince>>
    /\ UNCHANGED loggerVars

(***************************************************************************)
(* The guarded setters and the getters of TesterXYStage and TesterCamera   *)
(***************************************************************************)
\* a call of the settings begins on thread t
BeginCall(t) ==
    /\ ctl[t].pc = "idle"
    /\ ncalls < MaxCalls
    /\ ncalls' = ncalls + 1

\* what a call of the settings leaves alone in the camera
cameraVars == <<stopSequence_, sequenceMutex_, sequenceFuture_,
                cumulativeSequenceCounter_, snapCounter_, workers, nruns,
                core, frames, stopSince>>

\* the stage's setter entered without taking the Guard
SetPositionStepsUnguarded(t, p) ==
    /\ BeginCall(t)
    /\ ctl' = [ctl EXCEPT ![t] =
                 [IdleCtl EXCEPT !.pc = "xy_set_x", !.args = p]]
    /\ returned' = NoReturn
    /\ UNCHANGED loggerVars
    /\ UNCHANGED cameraVars

\* SettingLogger::GuardType g = GetLogger()->Guard(); MarkBusy();
SetPositionStepsGuard(t, p) ==
    /\ BeginCall(t)
    /\ CanLock(Ctl(t))
    /\ loggerMutex' = Ctl(t)
    /\ ctl' = [ctl EXCEPT ![t] =
                 [IdleCtl EXCEPT !.pc = "xy_set_x", !.args = p]]
    /\ returned' = NoReturn
    /\ UNCHANGED <<log, counter, settings>>
    /\ UNCHANGED cameraVars

\* int err1 = xPositionSteps_->Set(x);
SetPositionStepsX(t) ==
    /\ ctl[t].pc = "xy_set_x"
    /\ CanLock(Ctl(t))
    /\ LET r == SettingSet(t, xPositionSteps_, ctl[t].args[1])
       IN /\ settings' = r.settings
          /\ log' = r.log
          /\ counter' = r.counter
          /\ ctl' = [ctl EXCEPT ![t].pc = "xy_set_y", ![t].out = <<r.ret>>]
    /\ UNCHANGED <<loggerMutex, ncalls, returned>>
    /\ UNCHANGED cameraVars

\* int err2 = yPositionSteps_->Set(y); return err1, err2 or DEVICE_OK; the
\* guard is released
SetPositionStepsY(t) ==
    /\ ctl[t].pc = "xy_set_y"
    /\ CanLock(Ctl(t))
    /\ LET r == SettingSet(t, yPositionSteps_, ctl[t].args[2])
           err1 == ctl[t].out[1]
       IN /\ settings' = r.settings
          /\ log' = r.log
          /\ counter' = r.counter
          /\ returned' = Return(ctl[t], "SetPositionSteps",
                                IF err1 # DEVICE_OK THEN err1 ELSE r.ret)
    /\ loggerMutex' = NoOwner
    /\ ctl' = [ctl EXCEPT ![t] = IdleCtl]
    /\ UNCHANGED ncalls
    /\ UNCHANGED cameraVars

\* int err1 = xPositionSteps_->Get(x); (no guard is taken by the stage)
GetPositionStepsX(t) ==
    /\ BeginCall(t)
    /\ returned' = NoReturn
    /\ CanLock(Ctl(t))
    /\ LET r == SettingGet(t, xPositionSteps_)
       IN /\ log' = r.log
          /\ counter' = r.counter
          /\ ctl' = [ctl EXCEPT ![t] =
                       [IdleCtl EXCEPT !.pc = "xy_get_y",
                                       !.out = <<r.value>>]]
    /\ UNCHANGED <<loggerMutex, settings>>
    /\ UNCHANGED cameraVars

\* int err2 = yPositionSteps_->Get(y); return DEVICE_OK;
GetPositionStepsY(t) ==
    /\ ctl[t].pc = "xy_get_y"
    /\ CanLock(Ctl(t))
    /\ LET r == SettingGet(t, yPositionSteps_)
       IN /\ log' = r.log
          /\ counter' = r.counter
          /\ returned' = [Return(ctl[t], "GetPositionSteps", DEVICE_OK)
                             EXCEPT !.got = <<ctl[t].out[1], r.value>>]
    /\ ctl' = [ctl EXCEPT ![t] = IdleCtl]
    /\ UNCHANGED <<loggerMutex, settings, ncalls>>
    /\ UNCHANGED cameraVars

\* TesterCamera::SetBinning: Guard(); MarkBusy();
SetBinningGuard(t, binSize) ==
    /\ BeginCall(t)
    /\ CanLock(Ctl(t))
    /\ loggerMutex' = Ctl(t)
    /\ ctl' = [ctl EXCEPT ![t] =
                 [IdleCtl EXCEPT !.pc = "set_binning", !.args = <<binSize>>]]
    /\ returned' = NoReturn
    /\ UNCHANGED <<log, counter, settings>>
    /\ UNCHANGED cameraVars

\* return binningSetting_->Set(binSize);
SetBinning(t) ==
    /\ ctl[t].pc = "set_binning"
    /\ CanLock(Ctl(t))
    /\ LET r == SettingSet(t, binningSetting_, ctl[t].args[1])
       IN /\ settings' = r.settings
          /\ log' = r.log
          /\ counter' = r.counter
          /\ returned' = Return(ctl[t], "SetBinning", r.ret)
    /\ loggerMutex' = NoOwner
    /\ ctl' = [ctl EXCEPT ![t] = IdleCtl]
    /\ UNCHANGED ncalls
    /\ UNCHANGED cameraVars

\* return static_cast<int>(binningSetting_->Get());
GetBinning(t) ==
    /\ BeginCall(t)
    /\ CanLock(Ctl(t))
    /\ LET r == SettingGet(t, binningSetting_)
       IN /\ log' = r.log
          /\ counter' = r.counter
          /\ returned' = [Return(IdleCtl, "GetBinning", DEVICE_OK)
                             EXCEPT !.got = <<r.value>>]
    /\ UNCHANGED ctl
    /\ UNCHANGED <<loggerMutex, settings>>
    /\ UNCHANGED cameraVars

\* TesterCamera::SetExposure: Guard(); MarkBusy();
SetExposureGuard(t, exposureMs) ==
    /\ BeginCall(t)
    /\ CanLock(Ctl(t))
    /\ loggerMutex' = Ctl(t)
    /\ ctl' = [ctl EXCEPT ![t] =
                 [IdleCtl EXCEPT !.pc = "set_exposure", !.args = <<exposureMs>>]]
    /\ returned' = NoReturn
    /\ UNCHANGED <<log, counter, settings>>
    /\ UNCHANGED cameraVars

\* exposureSetting_->Set(exposureMs); (the code Set returns is dropped)
SetExposure(t) ==
    /\ ctl[t].pc = "set_exposure"
    /\ CanLock(Ctl(t))
    /\ LET r == SettingSet(t, exposureSetting_, ctl[t].args[1])
       IN /\ settings' = r.settings
          /\ log' = r.log
          /\ counter' = r.counter
    /\ returned' = Return(ctl[t], "SetExposure", NoCode)
    /\ loggerMutex' = NoOwner
    /\ ctl' = [ctl EXCEPT ![t] = IdleCtl]
    /\ UNCHANGED ncalls
    /\ UNCHANGED cameraVars

\* return exposureSetting_->Get();
GetExposure(t) ==
    /\ BeginCall(t)
    /\ CanLock(Ctl(t))
    /\ LET r == SettingGet(t, exposureSetting_)
       IN /\ log' = r.log
          /\ counter' = r.counter
          /\ returned' = [Return(IdleCtl, "GetExposure", DEVICE_OK)
                             EXCEPT !.got = <<r.value>>]
    /\ UNCHANGED ctl
    /\ UNCHANGED <<loggerMutex, settings>>
    /\ UNCHANGED cameraVars

Next ==
    \/ \E t \in Threads, a \in StartArgs : StartLock(t, a)
    \/ \E t \in Threads : StartCheck(t)
    \/ \E t \in Threads : StartPrepare(t)
    \/ \E t \in Threads : StartFuture(t)
    \/ \E t \in Threads : StartSpawn(t)
    \/ \E t \in Threads : StopLock(t)
    \/ \E t \in Threads : StopCheck(t)
    \/ \E t \in Threads : StopState(t)
    \/ \E t \in Threads : StopGet(t)
    \/ \E t \in Threads : StopWait(t)
    \/ \E t \in Threads : StopCatch(t)
    \/ \E t \in Threads : StopReset(t)
    \/ \E t \in Threads, r \in AcqFinishedResults : StopFinish(t, r)
    \/ \E t \in Threads : IsCapturingLock(t)
    \/ \E t \in Threads : IsCapturing(t)
    \/ \E t \in Threads : SnapImage(t)
    \/ \E w \in Runs : SendSequenceTop(w)
    \/ \E w \in Runs : SendSequenceCheck(w)
    \/ \E w \in Runs : SendSequenceCount(w)
    \/ \E w \in Runs : SendSequenceGenerate(w)
    \/ \E w \in Runs, r \in InsertResults : SendSequenceInsert(w, r)
    \/ \E w \in Runs : SendSequenceClear(w)
    \/ \E w \in Runs, r \in InsertResults : SendSequenceRetry(w, r)
    \/ \E w \in Runs : SendSequenceFailed(w)
    \/ \E w \in Runs : SendSequenceStopped(w)

Spec == Init /\ [][Next]_vars

\* the steps of a call of controlling thread t once the call has been made
ControllerStep(t) ==
    \/ StartCheck(t) \/ StartPrepare(t) \/ StartFuture(t) \/ StartSpawn(t)
    \/ StopCheck(t) \/ StopState(t) \/ StopGet(t) \/ StopWait(t)
    \/ StopCatch(t) \/ StopReset(t)
    \/ \E r \in AcqFinishedResults : StopFinish(t, r)
    \/ IsCapturing(t)

\* the steps of the capture thread of run w
WorkerStep(w) ==
    \/ SendSequenceTop(w) \/ SendSequenceCheck(w) \/ SendSequenceCount(w)
    \/ SendSequenceGenerate(w)
    \/ \E r \in InsertResults : SendSequenceInsert(w, r)
    \/ SendSequenceClear(w)
    \/ \E r \in InsertResults : SendSequenceRetry(w, r)
    \/ SendSequenceFailed(w) \/ SendSequenceStopped(w)

\* every thread that can take a step is scheduled in the end, a thread that
\* waits for sequenceMutex_ gets it in the end and the calls of the core
\* callback return; when the controlling threads make their calls is up to
\* them
FairSpec ==
    /\ Spec
    /\ \A t \in Threads : SF_vars(ControllerStep(t))
    /\ \A w \in Runs : SF_vars(WorkerStep(w))

(***************************************************************************)
(* The camera driven by one controlling thread while every thread calls    *)
(* the setters and getters of the camera and of the XY stage, which share  *)
(* the SettingLogger                                                       *)
(***************************************************************************)
CameraThreads == {1}

LogNext ==
    \/ \E t \in Threads, p \in Positions : SetPositionStepsGuard(t, p)
    \/ \E t \in Threads : SetPositionStepsX(t)
    \/ \E t \in Threads : SetPositionStepsY(t)
    \/ \E t \in Threads : GetPositionStepsX(t)
    \/ \E t \in Threads : GetPositionStepsY(t)
    \/ \E t \in Threads, b \in BinningValues : SetBinningGuard(t, b)
    \/ \E t \in Threads : SetBinning(t)
    \/ \E t \in Threads : GetBinning(t)
    \/ \E t \in Threads, e \in ExposureValues : SetExposureGuard(t, e)
    \/ \E t \in Threads : SetExposure(t)
    \/ \E t \in Threads : GetExposure(t)
    \/ \E t \in CameraThreads, a \in StartArgs : StartLock(t, a)
    \/ \E t \in CameraThreads : StartCheck(t)
    \/ \E t \in CameraThreads : StartPrepare(t)
    \/ \E t \in CameraThreads : StartFuture(t)
    \/ \E t \in CameraThreads : StartSpawn(t)
    \/ \E t \in CameraThreads : StopLock(t)
    \/ \E t \in CameraThreads : StopCheck(t)
    \/ \E t \in CameraThreads : StopState(t)
    \/ \E t \in CameraThreads : StopGet(t)
    \/ \E t \in CameraThreads : StopWait(t)
    \/ \E t \in CameraThreads : StopCatch(t)
    \/ \E t \in CameraThreads : StopReset(t)
    \/ \E t \in CameraThreads, r \in AcqFinishedResults : StopFinish(t, r)
    \/ \E t \in CameraThreads : IsCapturingLock(t)
    \/ \E t \in CameraThreads : IsCapturing(t)
    \/ \E t \in CameraThreads : SnapImage(t)
    \/ \E w \in Runs : SendSequenceTop(w)
    \/ \E w \in Runs : SendSequenceCheck(w)
    \/ \E w \in Runs : SendSequenceCount(w)
    \/ \E w \in Runs : SendSequenceGenerate(w)
    \/ \E w \in Runs, r \in InsertResults : SendSequenceInsert(w, r)
    \/ \E w \in Runs : SendSequenceClear(w)
    \/ \E w \in Runs, r \in InsertResults : SendSequenceRetry(w, r)
    \/ \E w \in Runs : SendSequenceFailed(w)
    \/ \E w \in Runs : SendSequenceStopped(w)

LogSpec == Init /\ [][LogNext]_vars

(***************************************************************************)
(* The claims                                                              *)
(***************************************************************************)
\* a step of controlling thread t that leaves program point pc
Leaves(t, pc) == ctl[t].pc = pc /\ ctl'[t].pc # pc

\* a step of capture thread w that leaves program point pc
WorkerLeaves(w, pc) == workers[w].pc = pc /\ workers'[w].pc # pc

\* C1: under every interleaving of start, stop and IsCapturing calls of the
\* controlling threads, at most one SendSequence worker of the camera is
\* alive (between its spawn and its exit) at any time
OneWorkerAlive == Cardinality({w \in Runs : Alive(w)}) <= 1

\* C2: once a start has succeeded and no stop has been called since, a
\* further start returns an error code, spawns no worker, does not call
\* PrepareForAcq, does not replace the handoff, and leaves the stop flag,
\* the workers and the frame counters unchanged
SecondStartRefused ==
    [][\A t \in Threads :
        (Leaves(t, "start_locked") /\ ~stopSince) =>
            /\ ctl'[t].pc = "idle"
            /\ returned'.op = "start"
            /\ returned'.ret # DEVICE_OK
            /\ UNCHANGED <<stopSequence_, sequenceFuture_, workers, core,
                           nruns, cumulativeSequenceCounter_, snapCounter_,
                           frames>>]_vars

\* C2, its case: a start is refused while the first run's worker has ended
\* with a captured error that no stop has collected
RefusedWhileUncollected ==
    /\ returned.op = "start"
    /\ returned.ret = DEVICE_ERR
    /\ returned.refusal = "finished"
    /\ workers[nruns].result = "err"
    /\ sequenceFuture_ = nruns

\* C3: the stop that ends a run (it sets the stop flag) and is called while
\* a worker error is unreported returns exactly that error code, by the catch
\* that resets the handoff and not by AcqFinished; a later stop (it finds the
\* flag set) returns success; and no worker error is returned twice
WorkerErrorReportedOnce ==
    /\ \A w \in Runs : workers[w].reports <= 1
    /\ (returned.op = "stop" /\ returned.setFlag /\ returned.pending # {}) =>
          /\ \E w \in returned.pending :
                workers[w].exc = returned.ret /\ workers[w].reports = 1
          /\ ~returned.notified
    /\ (returned.op = "stop" /\ returned.pending = {} /\ ~returned.setFlag) =>
          returned.ret = DEVICE_OK

\* C4: every stop call that found the stop flag clear and set it has called
\* AcqFinished when it returns, whatever the worker's outcome
StopNotifiesAcqFinished ==
    (returned.op = "stop" /\ returned.setFlag) => returned.notified

\* C5: a stop that finds the stop flag set returns DEVICE_OK in that step,
\* without waiting, touching the handoff or calling AcqFinished; AcqFinished
\* is never called more often than starts have succeeded
StopIdempotent ==
    /\ [][\A t \in Threads :
            (Leaves(t, "stop_locked") /\ stopSequence_) =>
                /\ ctl'[t].pc = "idle"
                /\ returned'.op = "stop"
                /\ returned'.ret = DEVICE_OK
                /\ ~returned'.notified
                /\ UNCHANGED <<stopSequence_, sequenceFuture_, core,
                               workers>>]_vars
    /\ [](core.acqFinishedCalls <= nruns)

\* C5, its case: a second stop on a camera a first stop has already stopped
\* (and notified AcqFinished for) returns DEVICE_OK
StoppedTwice ==
    /\ returned.op = "stop"
    /\ ~returned.setFlag
    /\ returned.ret = DEVICE_OK
    /\ nruns = 1
    /\ core.acqFinishedCalls = 1

\* a worker between passing the stop check and the end of its delivery
MidFrame == {"count", "generate", "insert", "clear", "retry"}

\* C6: when a stop that found a sequence running has returned, that run's
\* worker is not generating or delivering a frame any more
StopWaitsForWorker ==
    (returned.op = "stop" /\ returned.setFlag /\ returned.target # 0) =>
        workers[returned.target].pc \notin MidFrame

\* the frames a finite run of count frames delivers when the camera made c
\* sequence frames before: <<cumulative count, per-run count>>
ExpectedFrames(c, count) ==
    [i \in 1 .. (IF count > 0 THEN count ELSE 0) |-> <<c + i - 1, i - 1>>]

\* C7: a finite run that reaches its count with every delivery succeeding has
\* generated and delivered exactly count frames with per-run counts 0, 1, ...
\* and cumulative counts c, c + 1, ..., c the number of sequence frames the
\* camera made in its other (earlier) runs
FiniteRunCounts ==
    \A w \in Runs :
        (workers[w].pc = "top" /\ LoopEnds(workers[w])
            /\ workers[w].runClears = 0) =>
            /\ workers[w].gens = Len(workers[w].sent)
            /\ workers[w].sent =
                  ExpectedFrames(frames.sequence - workers[w].gens,
                                 workers[w].count)

\* C8: two frames GenerateLogImage makes one after the other never carry the
\* same cumulative count
NoRepeatedCumulativeCount == ~frames.repeated

\* C9: on a first delivery reporting overflow without stopOnOverflow the
\* worker clears the buffer once and delivers the same frame once more with
\* the don't-fail flag, no counter moving; a successful retry goes on to the
\* next frame; no clear with stopOnOverflow or after another result, and no
\* frame is delivered more than twice
OverflowRetriedOnce ==
    /\ [](\A w \in Runs :
            /\ workers[w].tries <= 2
            /\ workers[w].clears <= 1
            /\ workers[w].stopOnOverflow => workers[w].runClears = 0
            /\ workers[w].pc \in {"clear", "retry"} =>
                  /\ ~workers[w].stopOnOverflow
                  /\ workers[w].first = DEVICE_BUFFER_OVERFLOW
                  /\ workers[w].tries = 1
                  /\ workers[w].clears =
                        (IF workers[w].pc = "clear" THEN 0 ELSE 1)
            /\ workers[w].clears = 1 =>
                  workers[w].first = DEVICE_BUFFER_OVERFLOW
            /\ workers[w].tries = 2 =>
                  workers[w].dontFail /\ workers[w].clears = 1)
    /\ [][\A w \in Runs :
            /\ (WorkerLeaves(w, "insert") /\ ~workers[w].stopOnOverflow
                  /\ workers'[w].first = DEVICE_BUFFER_OVERFLOW) =>
                  workers'[w].pc = "clear"
            /\ WorkerLeaves(w, "clear") =>
                  /\ workers'[w].pc = "retry"
                  /\ workers'[w].cum = workers[w].cum
                  /\ workers'[w].frame = workers[w].frame
                  /\ workers'[w].gens = workers[w].gens
                  /\ UNCHANGED <<cumulativeSequenceCounter_, frames>>
            /\ WorkerLeaves(w, "retry") =>
                  /\ workers'[w].gens = workers[w].gens
                  /\ UNCHANGED <<cumulativeSequenceCounter_, frames>>
                  /\ IF workers'[w].pc = "top"
                     THEN /\ workers'[w].frame = workers[w].frame + 1
                          /\ workers'[w].sent =
                                Append(workers[w].sent,
                                       <<workers[w].cum, workers[w].frame>>)
                     ELSE /\ workers'[w].pc = "failed"
                          /\ workers'[w].frame = workers[w].frame
                          /\ workers'[w].cum = workers[w].cum]_vars

\* C9, its case: a run without stopOnOverflow has delivered all its frames,
\* one of them by a retry after one ClearImageBuffer
RetriedRunCompletes ==
    \E w \in Runs :
        /\ workers[w].pc = "top"
        /\ LoopEnds(workers[w])
        /\ workers[w].count = MaxCount
        /\ Len(workers[w].sent) = MaxCount
        /\ workers[w].runClears = 1

\* C10: the worker of a finite run with count <= 0 never takes a step into
\* the loop: it makes no frame and no delivery, leaves the cumulative counter
\* alone and ends by the count, stop requested or not
EmptyRunEmitsNothing ==
    /\ [](\A w \in Runs :
            (workers[w].finite /\ workers[w].count <= 0) =>
                /\ workers[w].pc \in {"created", "top", "done"}
                /\ workers[w].gens = 0
                /\ workers[w].sent = <<>>
                /\ workers[w].pc = "done" =>
                      workers[w].ended = "count" /\ workers[w].result = "ok")
    /\ [][\A w \in Runs :
            (workers[w].finite /\ workers[w].count <= 0
                /\ workers'[w] # workers[w]) =>
                /\ workers[w].pc \in {"created", "top"}
                /\ workers[w].pc = "top" => workers'[w].pc = "done"
                /\ UNCHANGED <<cumulativeSequenceCounter_, frames,
                               sequenceMutex_>>]_vars

\* C10, its case: a run started with count 0 has finished while no stop was
\* requested, and the camera has made no sequence frame
EmptyRunFinished ==
    \E w \in Runs :
        /\ workers[w].pc = "done"
        /\ workers[w].finite
        /\ workers[w].count = 0
        /\ workers[w].ended = "count"
        /\ ~stopSince
        /\ frames.sequence = 0

\* entry e is a Write of the setting called name
IsWrite(e, name) == e.name = name /\ e.kind = "Write"

\* in entries every XPositionSteps write is followed at once by the
\* YPositionSteps write of the same SetPositionSteps call, and every
\* YPositionSteps write follows such an X write; the last entry may be the X
\* write of a call that is still under way when open says so
PairedWrites(entries, open) ==
    \A i \in 1 .. Len(entries) :
        /\ IsWrite(entries[i], "XPositionSteps") =>
              IF i = Len(entries)
              THEN open /\ ctl[entries[i].thread].pc = "xy_set_y"
              ELSE /\ IsWrite(entries[i + 1], "YPositionSteps")
                   /\ entries[i + 1].thread = entries[i].thread
                   /\ entries[i + 1].seq = entries[i].seq + 1
                   /\ <<entries[i].value, entries[i + 1].value>> \in Positions
        /\ IsWrite(entries[i], "YPositionSteps") =>
              i > 1 /\ IsWrite(entries[i - 1], "XPositionSteps")

\* C11: the two writes of SetPositionSteps, made under one Guard, are never
\* separated: no PackAndReset and no Get or Set of another thread comes
\* between them, so the digest of every frame holds both writes, adjacent, or
\* neither
GuardedPairIndivisible ==
    /\ PairedWrites(frames.digest, FALSE)
    /\ PairedWrites(log, TRUE)

\* C11, its case: the second frame of a run holds in its digest the two
\* writes of a SetPositionSteps call made while the run was under way
FrameHoldsBothWrites ==
    /\ nruns = 1
    /\ frames.sequence = 2
    /\ snapCounter_ = 0
    /\ \E i \in 1 .. Len(frames.digest) :
          IsWrite(frames.digest[i], "XPositionSteps")

\* C12: the pair GetPositionSteps returns is the pair one SetPositionSteps
\* call stored, or the initial (0, 0), never the X of one call with the Y of
\* another
NoTornPosition ==
    returned.op = "GetPositionSteps" =>
        returned.got \in Positions \cup {<<0, 0>>}

Consecutive(entries) ==
    \A i \in 1 .. Len(entries) - 1 : entries[i + 1].seq = entries[i].seq + 1

\* C14: the sequence numbers of the recorded entries are strictly increasing
\* in recorded order with no duplicate and no gap, through the frames that
\* empty the log
SequenceNumbersConsecutive ==
    /\ Consecutive(frames.digest \o log)
    /\ log # <<>> => log[Len(log)].seq = counter - 1
    /\ (log = <<>> /\ frames.digest # <<>>) =>
          frames.digest[Len(frames.digest)].seq = counter - 1

\* C14, its case: Reads and Writes of two threads recorded one after another
EntriesOfTwoThreads ==
    /\ Len(log) >= 3
    /\ \E i, j \in 1 .. Len(log) :
          /\ log[i].thread # log[j].thread
          /\ log[i].kind = "Read"
          /\ log[j].kind = "Write"

\* C15: a Set with a value outside the bounds returns an error code, stores
\* nothing and records no Write: Binning stays 1 whatever SetBinning is
\* given, and Exposure stays within 0.1 .. 1000.0 and unchanged by an
\* out-of-range SetExposure
OutOfRangeRejected ==
    /\ [](/\ settings.Binning = 1
          /\ settings.Exposure \in 1 .. 10000
          /\ returned.op = "GetBinning" => returned.got = <<1>>
          /\ (returned.op = "SetBinning" /\ returned.args # <<1>>) =>
                returned.ret # DEVICE_OK)
    /\ [][\A t \in Threads :
            /\ (Leaves(t, "set_binning") /\ ctl[t].args[1] # 1) =>
                  UNCHANGED <<settings, log, counter>>
            /\ (Leaves(t, "set_exposure")
                  /\ ctl[t].args[1] \notin 1 .. 10000) =>
                  UNCHANGED <<settings, log, counter>>]_vars

\* C15, its case: SetBinning(2) has returned an error
BinningRefused ==
    /\ returned.op = "SetBinning"
    /\ returned.args = <<2>>
    /\ returned.ret # DEVICE_OK

\* C16: a worker whose delivery failed and that finds the stop flag set ends
\* its run with no captured error, and the stop call that set the flag for
\* that run returns what AcqFinished returned, not an error code of a
\* delivery; a worker that finds the flag clear captures the delivery's code
\* as the outcome of the run; either way it delivers no further frame
FailedDeliveryAfterStop ==
    /\ [][\A w \in Runs :
            /\ WorkerLeaves(w, "stopped") =>
                  /\ workers'[w].pc = "done"
                  /\ IF stopSequence_
                     THEN /\ workers'[w].result = "ok"
                          /\ workers'[w].exc = NoCode
                          /\ workers'[w].ended = "absorbed"
                     ELSE /\ workers'[w].result = "err"
                          /\ workers'[w].exc = workers[w].err
                          /\ workers[w].err # DEVICE_OK
                          /\ workers'[w].ended = "error"
            /\ workers[w].pc = "done" =>
                  [workers'[w] EXCEPT !.reports = 0] =
                      [workers[w] EXCEPT !.reports = 0]]_vars
    /\ [](\A w \in Runs :
            workers[w].ended = "absorbed" => workers[w].reports = 0)
    /\ []((returned.op = "stop" /\ returned.setFlag /\ returned.target # 0) =>
            (workers[returned.target].ended = "absorbed" =>
                returned.notified))

\* program points of a controlling thread whose next step reads or writes
\* stopSequence_
FlagPoints == {"start_locked", "stop_locked", "capturing_locked"}

\* program points of a controlling thread whose next step reads or writes
\* sequenceFuture_
FuturePoints ==
    {"start_future", "stop_state", "stop_get", "stop_catch", "stop_reset"}

\* C17: the stop flag and the handoff sequenceFuture_ are read and written
\* only by a thread that holds sequenceMutex_, and a worker holds neither
\* that lock nor the logger's during InsertImage and ClearImageBuffer
SharedStateUnderLock ==
    /\ [][/\ \A t \in Threads, pc \in FlagPoints \cup FuturePoints :
                Leaves(t, pc) => sequenceMutex_ = Ctl(t)
          /\ \A w \in Runs, pc \in {"check", "stopped"} :
                WorkerLeaves(w, pc) => sequenceMutex_ = Wrk(w)
          /\ (stopSequence_' # stopSequence_
                \/ sequenceFuture_' # sequenceFuture_) =>
                sequenceMutex_ # NoOwner]_vars
    /\ [](\A w \in Runs :
            workers[w].pc \in {"insert", "clear", "retry"} =>
                sequenceMutex_ # Wrk(w) /\ loggerMutex # Wrk(w))

\* program points of a controlling thread inside StopSequenceAcquisition
StopPoints ==
    {"stop_locked", "stop_state", "stop_get", "stop_wait", "stop_catch",
     "stop_reset", "stop_finish"}

\* C18: under fair scheduling and a core callback whose calls return, every
\* call of StopSequenceAcquisition returns in the end
StopReturns ==
    \A t \in Threads : (ctl[t].pc \in StopPoints) ~> (ctl[t].pc = "idle")

\* C19: IsCapturing returns the negation of the stop flag and nothing else:
\* false on a camera never started, true from the start that clears the flag
\* to the stop that sets it whatever the worker does meanwhile; only a start
\* clears the flag and only a stop sets it, and IsCapturing changes neither
\* the flag, the handoff, the counters nor the workers
IsCapturingReflectsFlag ==
    /\ [][/\ \A t \in Threads :
                /\ Leaves(t, "capturing_locked") =>
                      /\ returned'.op = "capturing"
                      /\ returned'.capturing = ~stopSequence_
                /\ (Leaves(t, "capturing_locked")
                      \/ (ctl[t].pc = "idle"
                            /\ ctl'[t].pc = "capturing_locked")) =>
                      UNCHANGED <<stopSequence_, sequenceFuture_,
                                  cumulativeSequenceCounter_, snapCounter_,
                                  workers, nruns, core, frames>>
          /\ (stopSequence_ /\ ~stopSequence_') =>
                \E t \in Threads :
                    Leaves(t, "start_locked") /\ ctl'[t].pc = "start_prepare"
          /\ (~stopSequence_ /\ stopSequence_') =>
                \E t \in Threads :
                    Leaves(t, "stop_locked") /\ ctl'[t].pc = "stop_state"]_vars
    /\ [](nruns = 0 => stopSequence_)

\* C19, its case: IsCapturing has returned true although the worker of the
\* run has already exited and no worker is alive
CapturingAfterWorkerExit ==
    /\ returned.op = "capturing"
    /\ returned.capturing
    /\ nruns >= 1
    /\ \A w \in Runs : ~Alive(w)
    /\ workers[nruns].pc = "done"

\* C20: each start that passes the flag check calls PrepareForAcq exactly
\* once, after it has cleared the flag and before the task and its worker
\* exist, so before every InsertImage of the run; no other step calls it, and
\* the calls made are as many as the starts that succeeded
PrepareOncePerStart ==
    /\ [][/\ \A t \in Threads :
                /\ (Leaves(t, "start_locked") /\ stopSequence_) =>
                      /\ ~stopSequence_'
                      /\ ctl'[t].pc = "start_prepare"
                      /\ core' = core
                /\ Leaves(t, "start_prepare") =>
                      /\ core'.prepareCalls = core.prepareCalls + 1
                      /\ ctl'[t].pc = "start_future"
                      /\ workers[ctl[t].run].pc = "unborn"
          /\ core'.prepareCalls # core.prepareCalls =>
                \E t \in Threads : Leaves(t, "start_prepare")]_vars
    /\ [](/\ core.prepareCalls
                + Cardinality({t \in Threads : ctl[t].pc = "start_prepare"})
                = nruns
          /\ \A w \in Runs :
                workers[w].pc # "unborn" =>
                    /\ w <= nruns
                    /\ \A t \in Threads :
                          ~(ctl[t].pc = "start_prepare" /\ ctl[t].run = w))

\* C20, its case: two starts have succeeded, with a stop between them, and
\* PrepareForAcq was called twice
PreparedTwice ==
    /\ nruns = 2
    /\ core.prepareCalls = 2
    /\ returned.op = "start"
    /\ returned.ret = DEVICE_OK
    /\ \A t \in Threads : ctl[t].pc = "idle"

====
